---- MODULE Spec2Model ----
(***************************************************************************)
(* The block map of angr's knowledge base (BasicBlocksPlugin) and its      *)
(* overlap modes 'trim', 'handle' and 'raise'.                             *)
(*                                                                         *)
(* BasicBlocksPlugin, BlockMapping, BlockItem and OverlappedBlocks are     *)
(* translated from src/angr/knowledge_plugins/basic_blocks.py.  The base   *)
(* class RangeDict comes from the package `rangedict`, whose code is not   *)
(* in the repository: the definitions named RangeDict_* follow the         *)
(* interval-sequence contract of spec.md (sections 2, 4.1 and 4.2): a      *)
(* container ordered by start, neighbour-aware insertion that reports the  *)
(* pair (attempted record, conflicting neighbour) and aborts without       *)
(* mutation, point lookup and ordered range iteration.                     *)
(***************************************************************************)
EXTENDS Integers, Sequences, FiniteSets, TLC

\* ---- bounds of the model ------------------------------------------------
MaxAddr   == 2      \* addresses passed to the operations are 0..MaxAddr
MaxSize   == 3      \* sizes passed to add_block are -1..MaxSize
MaxVal    == 2      \* payloads (irsb) are 1..MaxVal
MaxBlocks == 2      \* add_block is not called on a map holding more records
MaxDeep   == 3      \* the same for the runs that build maps of several records
MaxObjects == 2     \* BasicBlocksPlugin objects made in one run of the registry
MaxErrors == 3      \* _resilience is not entered with more errors recorded

Addrs    == 0..MaxAddr
Sizes    == (-1)..MaxSize
Values   == 1..MaxVal
\* the three overlap modes of add_block and one that is none of them
Modes    == {"trim", "handle", "raise", "merge"}
\* overlap_handler: None (the default), the handler of test_handle, a handler
\* that changes nothing and a handler that shrinks the new block instead
Handlers == {"None", "_ovarlap_handler", "noop", "shrink_this"}
\* the overlap_mode and overlap_handler arguments a call passes: a handler is
\* passed with mode 'handle' only
Policies == {<<m, "None">> : m \in Modes} \cup {<<"handle", h>> : h \in Handlers}
\* a bound of a slice that was omitted (None)
None     == -9

VARIABLES
    blocks,     \* BasicBlocksPlugin._blocks: the records, ordered by start
    pre,        \* the value of blocks when the last operation was called
    ret,        \* the last operation: its arguments and what it returned or raised
    kb,         \* a KnowledgeBase: its _plugins, the BasicBlocksPlugin objects
                \* made so far and the last operation on it
    an          \* an analysis object that AnalysisFactory has built: its
                \* _fail_fast, errors and named_errors, and the last
                \* _resilience block it ran

vars == <<blocks, pre, ret, kb, an>>

\* ---- BlockItem ----------------------------------------------------------
NoItem == [start |-> 0, end |-> 0, value |-> 0, second_chance |-> FALSE]

\* BlockItem(start, end, value): second_chance starts False
BlockItem(start, end, value) ==
    [start |-> start, end |-> end, value |-> value, second_chance |-> FALSE]

\* BlockMapping._make_item
BlockMapping_make_item(start, end, value) == BlockItem(start, end, value)

\* BlockItem.addr
BlockItem_addr(item) == item.start

\* RangeItem.size, as test_trim reads it
RangeItem_size(item) == item.end - item.start

\* OverlappedBlocks(this_block, other_block); an index is the position of the
\* block in the map, 0 for a block that is not stored
OverlappedBlocks(this_block, this_idx, other_block, other_idx) ==
    [raised |-> TRUE, this_block |-> this_block, this_idx |-> this_idx,
     other_block |-> other_block, other_idx |-> other_idx]

\* ---- RangeDict: trimming of the item being placed ------------------------
\* the placement shrinks the boundary of the record being placed against the
\* neighbour; nothing changes when the two do not intersect
RangeDict_trim_left(this_item, left_item) ==
    IF this_item.start < left_item.end
    THEN [this_item EXCEPT !.start = left_item.end]
    ELSE this_item

RangeDict_trim_right(this_item, right_item) ==
    IF this_item.end > right_item.start
    THEN [this_item EXCEPT !.end = right_item.start]
    ELSE this_item

\* ---- BlockMapping --------------------------------------------------------
\* a slip: the hook lets every item through as it is, overlap or not
BlockMapping_trim_left_pass(this_item, left_item, left_idx) ==
    [raised |-> FALSE, this_item |-> this_item]

\* a slip: the hook of the base class, which trims and never raises
BlockMapping_trim_right_base(this_item, right_item, right_idx) ==
    [raised |-> FALSE, this_item |-> RangeDict_trim_right(this_item, right_item)]

\* BlockMapping._trim_left: raise unless this_item has its second chance
BlockMapping_trim_left(this_item, left_item, left_idx) ==
    IF this_item.start < left_item.end /\ ~this_item.second_chance
    THEN OverlappedBlocks(this_item, 0, left_item, left_idx)
    ELSE [raised |-> FALSE,
          this_item |-> RangeDict_trim_left(
                            [this_item EXCEPT !.second_chance = FALSE], left_item)]

\* BlockMapping._trim_right
BlockMapping_trim_right(this_item, right_item, right_idx) ==
    IF this_item.end > right_item.start /\ ~this_item.second_chance
    THEN OverlappedBlocks(this_item, 0, right_item, right_idx)
    ELSE [raised |-> FALSE,
          this_item |-> RangeDict_trim_right(
                            [this_item EXCEPT !.second_chance = FALSE], right_item)]

\* a slip: the hook lets every two records that touch be merged
BlockMapping_should_merge_always(this_item, other_item) == TRUE

\* BlockMapping._should_merge: blocks are never merged
BlockMapping_should_merge(this_item, other_item) == FALSE

\* ---- RangeDict: the ordered container -------------------------------------
\* the addresses of the half-open range [start, end)
Range(item) == item.start .. (item.end - 1)

\* the positions of the records that the range [start, stop) intersects
RangeDict_neighbours(list, start, stop) ==
    {i \in 1..Len(list) : Range(list[i]) \cap (start .. (stop - 1)) # {}}

\* the list with `item` placed by its start, after the records that start
\* at or before it
RangeDict_add(list, item) ==
    LET n == Cardinality({i \in 1..Len(list) : list[i].start <= item.start})
    IN  SubSeq(list, 1, n) \o <<item>> \o SubSeq(list, n + 1, Len(list))

\* the placement of an item that no hook has refused: the records that touch
\* the item are merged into it if the hook _should_merge says so (a
\* BlockMapping never does), and the item is put in its place
RangeDict_place(list, item) ==
    LET merge(it) == /\ (it.end = item.start \/ it.start = item.end)
                     /\ BlockMapping_should_merge(item, it)
        M == {i \in 1..Len(list) : merge(list[i])}
    IN  IF M = {} THEN RangeDict_add(list, item)
        ELSE RangeDict_add(
                 SelectSeq(list, LAMBDA it : ~merge(it)),
                 [item EXCEPT
                     !.start = CHOOSE a \in {item.start} \cup {list[i].start : i \in M} :
                                   \A i \in M : a <= list[i].start /\ a <= item.start,
                     !.end = CHOOSE a \in {item.end} \cup {list[i].end : i \in M} :
                                   \A i \in M : a >= list[i].end /\ a >= item.end])

\* the item after the records at the positions S, in the order of the list,
\* have been put to the hooks: a record that starts before the item is its
\* left neighbour, any other its right neighbour; the first hook that raises
\* ends the walk
RECURSIVE RangeDict_walk(_, _, _)
RangeDict_walk(list, S, this_item) ==
    IF S = {} THEN [raised |-> FALSE, this_item |-> this_item]
    ELSE LET i == CHOOSE k \in S : \A j \in S : k <= j
             r == IF list[i].start < this_item.start
                  THEN BlockMapping_trim_left(this_item, list[i], i)
                  ELSE BlockMapping_trim_right(this_item, list[i], i)
         IN  IF r.raised THEN r
             ELSE RangeDict_walk(list, S \ {i}, r.this_item)

\* RangeDict.__setitem__(slice(start, stop), value): make the item, report
\* the records it intersects to the hooks, first by address order, and place
\* the item; an OverlappedBlocks raised by a hook leaves the list as it was
RangeDict_setitem(list, start, stop, value) ==
    LET this_item == BlockMapping_make_item(start, stop, value)
        r == RangeDict_walk(list, RangeDict_neighbours(list, start, stop), this_item)
    IN  IF r.raised THEN r @@ [list |-> list]
        ELSE [raised |-> FALSE, list |-> RangeDict_place(list, r.this_item)]

\* RangeDict.peekitem(addr): the record whose range contains addr (the first
\* in the order of the list), NoItem (None) when no record does
RangeDict_peekitem(list, addr) ==
    LET S == {i \in 1..Len(list) : addr \in Range(list[i])}
    IN  IF S = {} THEN NoItem
        ELSE list[CHOOSE i \in S : \A j \in S : i <= j]

\* RangeDict.__contains__(addr)
RangeDict_contains(list, addr) ==
    \E i \in 1..Len(list) : addr \in Range(list[i])

\* RangeDict.islice(start, stop): the records whose range has an address in
\* [start, stop), in the order of the list; None leaves that side unbounded
RangeDict_islice(list, start, stop) ==
    SelectSeq(list, LAMBDA it :
        \E a \in Range(it) : /\ (start = None \/ start <= a)
                             /\ (stop = None \/ a < stop))

\* ---- overlap handlers (the callbacks a caller passes to add_block) -------
\* the list after handler(this_block, other_block) has run: a handler
\* changes the blocks in place, so a change to a stored block (idx > 0)
\* shows in the map and a change to a block that is not stored is lost
\*   _ovarlap_handler (test_handle): other_item.end = this_item.start
\*   noop:                           changes nothing
\*   shrink_this:                    this_item.end = other_item.start
overlap_handler(handler, list, this_block, this_idx, other_block, other_idx) ==
    CASE handler = "_ovarlap_handler" ->
            IF other_idx = 0 THEN list
            ELSE [list EXCEPT ![other_idx].end = this_block.start]
      [] handler = "shrink_this" ->
            IF this_idx = 0 THEN list
            ELSE [list EXCEPT ![this_idx].end = other_block.start]
      [] OTHER -> list

\* ---- BasicBlocksPlugin ---------------------------------------------------
Returned(list, attempts, handler_calls) ==
    [list |-> list, exc |-> "", line |-> 0, this_block |-> NoItem,
     other_block |-> NoItem, attempts |-> attempts, handler_calls |-> handler_calls]

Raised(list, exc, line, this_block, other_block, attempts, handler_calls) ==
    [list |-> list, exc |-> exc, line |-> line, this_block |-> this_block,
     other_block |-> other_block, attempts |-> attempts,
     handler_calls |-> handler_calls]

\* a slip: the second chance is given to the records of the map
SetSecondChance_stored(list, idx) ==
    [i \in 1..Len(list) |-> [list[i] EXCEPT !.second_chance = TRUE]]

\* `this_block.second_chance = True` on the block the exception names
SetSecondChance(list, idx) ==
    IF idx = 0 THEN list ELSE [list EXCEPT ![idx].second_chance = TRUE]

\* a slip: the attempted item is placed in the map before the overlap is raised
add_block_raise_placed(list, overlapped) ==
    Raised(RangeDict_add(list, overlapped.this_block), "OverlappedBlocks", 97,
           overlapped.this_block, overlapped.other_block, 1, 0)

\* a slip: the retry settles the overlap by putting the new block in the
\* place of the record it overlaps
add_block_retry_evict(marked, retry) ==
    IF retry.raised
    THEN Returned(RangeDict_add(SubSeq(marked, 1, retry.other_idx - 1)
                                    \o SubSeq(marked, retry.other_idx + 1, Len(marked)),
                                retry.this_block), 2, 0)
    ELSE Returned(retry.list, 2, 0)

\* a slip: an overlap that the retry reports is swallowed
add_block_retry_drop(marked, retry) ==
    IF retry.raised THEN Returned(marked, 2, 0) ELSE Returned(retry.list, 2, 0)

\* add_block, line 94: the retry of mode 'trim' on the map `marked`; an
\* OverlappedBlocks of the retry leaves add_block
add_block_retry(marked, retry) ==
    IF retry.raised
    THEN Raised(marked, "OverlappedBlocks", 94,
                retry.this_block, retry.other_block, 2, 0)
    ELSE Returned(retry.list, 2, 0)

\* add_block has returned after the call overlap_handler(this_block,
\* other_block): the two arguments of the handler are kept for the record
Handled(list, this_block, other_block) ==
    [Returned(list, 1, 1) EXCEPT !.this_block = this_block,
                                 !.other_block = other_block]

\* a slip: the handler is called with its two arguments in the other order
add_block_handle_reversed(list, handler, this_block, this_idx, other_block, other_idx) ==
    IF handler = "None"
    THEN Raised(list, "TypeError", 90, this_block, other_block, 1, 0)
    ELSE Handled(overlap_handler(handler, list, other_block, other_idx,
                                 this_block, this_idx),
                 other_block, this_block)

\* add_block, line 90: the handler is called once, and add_block returns;
\* calling the default handler, None, is a TypeError
add_block_handle(list, handler, this_block, this_idx, other_block, other_idx) ==
    IF handler = "None"
    THEN Raised(list, "TypeError", 90, this_block, other_block, 1, 0)
    ELSE Handled(overlap_handler(handler, list, this_block, this_idx,
                                 other_block, other_idx),
                 this_block, other_block)

\* add_block, lines 96-97: mode 'raise' raises the OverlappedBlocks again
add_block_raise(list, overlapped) ==
    Raised(list, "OverlappedBlocks", 97,
           overlapped.this_block, overlapped.other_block, 1, 0)

\* add_block, lines 83-100: the except clause, the overlap mode's handling of
\* the overlap that the insertion reported.  exc is "" when the call returns;
\* line is the line of the raise (97: the re-raise of mode 'raise', 94: the
\* retry of mode 'trim', 100: unknown mode, 90: calling a handler that is None)
add_block_except(list, addr, size, irsb, overlap_mode, handler, overlapped) ==
    LET swap == BlockItem_addr(overlapped.this_block) # addr
        this_block  == IF swap THEN overlapped.other_block ELSE overlapped.this_block
        this_idx    == IF swap THEN overlapped.other_idx   ELSE overlapped.this_idx
        other_block == IF swap THEN overlapped.this_block  ELSE overlapped.other_block
        other_idx   == IF swap THEN overlapped.this_idx    ELSE overlapped.other_idx
    IN  CASE overlap_mode = "handle" ->
               add_block_handle(list, handler, this_block, this_idx,
                                other_block, other_idx)
          [] overlap_mode = "trim" ->
               add_block_retry(SetSecondChance(list, overlapped.this_idx),
                               RangeDict_setitem(
                                   SetSecondChance(list, overlapped.this_idx),
                                   addr, addr + size, irsb))
          [] overlap_mode = "raise" -> add_block_raise(list, overlapped)
          [] OTHER ->
               Raised(list, "ValueError", 100,
                      overlapped.this_block, overlapped.other_block, 1, 0)

\* add_block, lines 80-81: the insertion; an OverlappedBlocks goes to the
\* except clause
add_block_first(list, addr, size, irsb, overlap_mode, handler, first) ==
    IF ~first.raised THEN Returned(first.list, 1, 0)
    ELSE add_block_except(list, addr, size, irsb, overlap_mode, handler, first)

\* a slip: the block is placed without a look at the records it overlaps
add_block_try_blind(list, addr, size, irsb, overlap_mode, handler) ==
    Returned(RangeDict_add(list, BlockMapping_make_item(addr, addr + size, irsb)), 1, 0)

add_block_try(list, addr, size, irsb, overlap_mode, handler) ==
    add_block_first(list, addr, size, irsb, overlap_mode, handler,
                    RangeDict_setitem(list, addr, addr + size, irsb))

\* a slip: the empty-block check made after the insertion instead of before
add_block_check_late(list, addr, size, irsb, overlap_mode, handler) ==
    LET r == add_block_try(list, addr, size, irsb, overlap_mode, handler)
    IN  IF size = 0 /\ r.exc = ""
        THEN Raised(r.list, "ValueError", 78, NoItem, NoItem, r.attempts, 0)
        ELSE r

\* BasicBlocksPlugin.add_block(addr, size, irsb, overlap_mode, overlap_handler)
\* on the map `list`: the map it leaves and what it returns or raises
\* (line 78: the ValueError for an empty block, before any insertion)
add_block(list, addr, size, irsb, overlap_mode, handler) ==
    IF size = 0
    THEN Raised(list, "ValueError", 78, NoItem, NoItem, 0, 0)
    ELSE add_block_try(list, addr, size, irsb, overlap_mode, handler)

\* BasicBlocksPlugin.get_block(addr)
get_block(list, addr) == RangeDict_peekitem(list, addr)

\* BasicBlocksPlugin.__contains__(key)
contains(list, key) == RangeDict_contains(list, key)

\* a slip: del_block takes out the record that occupies the address
del_block_removes(list, addr) ==
    Returned(SelectSeq(list, LAMBDA it : addr \notin Range(it)), 0, 0)

\* BasicBlocksPlugin.del_block(addr): raise NotImplementedError (line 116)
del_block(list, addr) ==
    Raised(list, "NotImplementedError", 116, NoItem, NoItem, 0, 0)

\* BasicBlocksPlugin.__delitem__(key): raise NotImplementedError (line 38)
delitem(list, key) ==
    Raised(list, "NotImplementedError", 38, NoItem, NoItem, 0, 0)

\* a slip: the two bounds passed on in the wrong order
iter_blocks_swapped(list, start, stop) == RangeDict_islice(list, stop, start)

\* BasicBlocksPlugin.iter_blocks(start, stop)
iter_blocks(list, start, stop) == RangeDict_islice(list, start, stop)

\* ---- KnowledgeBase ---------------------------------------------------------
\* the names a caller asks the knowledge base for: the name of the block map
\* and a name that has no default class
Names == {"basic_blocks", "no_such"}

\* KnowledgeBase._default_plugins, as far as the block map goes: line 88
\* registers the class BasicBlocksPlugin under 'basic_blocks'
default_plugins == {"basic_blocks"}

\* a call BasicBlocksPlugin(**kwargs): __init__(self) takes no argument, so a
\* keyword argument is a TypeError and no object is made; the object made
\* otherwise is the next of `objects`, with an empty BlockMapping
BasicBlocksPlugin_init(objects, kwargs) ==
    IF kwargs # {}
    THEN [exc |-> "TypeError", objects |-> objects, plugin |-> 0]
    ELSE [exc |-> "", objects |-> Append(objects, <<>>), plugin |-> Len(objects) + 1]

\* KnowledgeBase.register_plugin(name, plugin): the _plugins it leaves
register_plugin(plugins, name, plugin) ==
    [n \in DOMAIN plugins \cup {name} |-> IF n = name THEN plugin ELSE plugins[n]]

\* KnowledgeBase.release_plugin(name)
release_plugin(plugins, name) ==
    [n \in DOMAIN plugins \ {name} |-> plugins[n]]

\* KnowledgeBase.has_plugin(name) and KnowledgeBase.__contains__(name)
has_plugin(plugins, name) == name \in DOMAIN plugins

\* get_plugin, line 65: the default class called with kb=self, the object
\* registered if the call made one
get_plugin_default(k, name, made) ==
    IF made.exc # ""
    THEN [plugins |-> k.plugins, objects |-> k.objects, exc |-> made.exc,
          plugin |-> 0, instantiated |-> k.instantiated]
    ELSE [plugins |-> register_plugin(k.plugins, name, made.plugin),
          objects |-> made.objects, exc |-> "", plugin |-> made.plugin,
          instantiated |-> k.instantiated + 1]

\* KnowledgeBase.get_plugin(name), which __getattr__(name) calls as well
get_plugin(k, name) ==
    IF name \in DOMAIN k.plugins
    THEN [plugins |-> k.plugins, objects |-> k.objects, exc |-> "",
          plugin |-> k.plugins[name], instantiated |-> k.instantiated]
    ELSE IF name \in default_plugins
    THEN get_plugin_default(k, name, BasicBlocksPlugin_init(k.objects, {"kb"}))
    ELSE [plugins |-> k.plugins, objects |-> k.objects,
          exc |-> "KnowledgeBaseNoPlugin", plugin |-> 0,
          instantiated |-> k.instantiated]

\* KnowledgeBase.__init__: no plugin yet.  objects[i] is the block map of
\* the i-th BasicBlocksPlugin object; instantiated counts the objects that
\* get_plugin made from the default class; first is the object that the
\* first access to 'basic_blocks' returned (0: none yet)
KnowledgeBase_init ==
    [plugins |-> << >>, objects |-> << >>, instantiated |-> 0, first |-> 0,
     op |-> "init", name |-> "", exc |-> "", plugin |-> 0, has |-> FALSE]

\* ---- Analysis ---------------------------------------------------------------
\* the name argument of _resilience: None (the default) and two names
ResilienceNames == {"None", "cfg", "vfg"}

\* the exception argument of _resilience, the type it guards: Exception
\* (the default) and a narrower one
GuardedTypes == {"Exception", "ValueError"}

\* what the body of the with block raises: nothing ("") or an exception
BodyRaises == {"", "ValueError", "TypeError"}

\* `except exception:` catches an exception of the type or of a subclass;
\* every exception of the model is an Exception
except_matches(raised, exception) ==
    exception = "Exception" \/ raised = exception

\* AnalysisLogEntry("exception occurred", exc_info=True)
AnalysisLogEntry(message, exc_type) == [message |-> message, exc_type |-> exc_type]

\* the record of an analysis object and of the last _resilience block
Analysis(fail_fast, errors, named_errors, op, name, exception, raised, exc, errors_pre, named_errors_pre) ==
    [fail_fast |-> fail_fast, errors |-> errors, named_errors |-> named_errors,
     op |-> op, name |-> name, exception |-> exception, raised |-> raised,
     exc |-> exc, errors_pre |-> errors_pre, named_errors_pre |-> named_errors_pre]

\* AnalysisFactory.__call__(fail_fast=...): the object gets a plain dict as
\* named_errors (line 109) and an empty list as errors (line 110)
AnalysisFactory_call(fail_fast) ==
    Analysis(fail_fast, << >>, << >>, "__call__", "", "", "", "", << >>, << >>)

\* Analysis._resilience(name, exception) around a body that raises `raised`:
\* the errors and named_errors it leaves and the exception that leaves the
\* block ("" for none).  named_errors[name] of a name that is no key of the
\* dict raises a KeyError inside the except clause (line 176)
resilience(a, name, exception, raised) ==
    IF raised = "" \/ ~except_matches(raised, exception)
    THEN [errors |-> a.errors, named_errors |-> a.named_errors, exc |-> raised]
    ELSE IF a.fail_fast
    THEN [errors |-> a.errors, named_errors |-> a.named_errors, exc |-> raised]
    ELSE IF name = "None"
    THEN [errors |-> Append(a.errors, AnalysisLogEntry("exception occurred", raised)),
          named_errors |-> a.named_errors, exc |-> ""]
    ELSE IF name \in DOMAIN a.named_errors
    THEN [errors |-> a.errors,
          named_errors |-> [a.named_errors EXCEPT
                               ![name] = Append(@, AnalysisLogEntry("exception occurred",
                                                                    raised))],
          exc |-> ""]
    ELSE [errors |-> a.errors, named_errors |-> a.named_errors, exc |-> "KeyError"]

\* ---- the state machine ---------------------------------------------------
NoCall ==
    [op |-> "init", addr |-> 0, size |-> 0, irsb |-> 0, mode |-> "", handler |-> "",
     exc |-> "", line |-> 0, this_block |-> NoItem, other_block |-> NoItem,
     attempts |-> 0, handler_calls |-> 0, start |-> 0, stop |-> 0, items |-> <<>>]

\* BasicBlocksPlugin.__init__: an empty BlockMapping
Init ==
    /\ blocks = <<>>
    /\ pre = <<>>
    /\ ret = NoCall
    /\ kb = KnowledgeBase_init
    /\ an = AnalysisFactory_call(FALSE)

\* a call of add_block, whole: the insertion, the overlap mode's handling of
\* a reported overlap and the retry
AddBlockCall(addr, size, irsb, policy) ==
    \E r \in {add_block(blocks, addr, size, irsb, policy[1], policy[2])} :
        /\ blocks' = r.list
        /\ pre' = blocks
        /\ ret' = [NoCall EXCEPT !.op = "add_block", !.addr = addr,
                      !.size = size, !.irsb = irsb, !.mode = policy[1],
                      !.handler = policy[2], !.exc = r.exc, !.line = r.line,
                      !.this_block = r.this_block,
                      !.other_block = r.other_block,
                      !.attempts = r.attempts,
                      !.handler_calls = r.handler_calls]

AddBlock ==
    /\ Len(blocks) < MaxBlocks
    /\ \E addr \in Addrs, size \in Sizes, irsb \in Values, policy \in Policies :
           AddBlockCall(addr, size, irsb, policy)
    /\ UNCHANGED <<kb, an>>

\* a call of get_block
GetBlock ==
    \E addr \in Addrs :
        /\ ret' = [NoCall EXCEPT !.op = "get_block", !.addr = addr,
                      !.this_block = get_block(blocks, addr)]
        /\ pre' = blocks
        /\ UNCHANGED <<blocks, kb, an>>

\* a call of iter_blocks, read to its end
IterBlocks ==
    \E start \in Addrs \cup {None}, stop \in Addrs \cup {None} :
        /\ ret' = [NoCall EXCEPT !.op = "iter_blocks", !.start = start,
                      !.stop = stop, !.items = iter_blocks(blocks, start, stop)]
        /\ pre' = blocks
        /\ UNCHANGED <<blocks, kb, an>>

\* a call of del_block(addr) or of `del basic_blocks[addr]`
DelBlock ==
    /\ \E addr \in Addrs, op \in {"del_block", "__delitem__"} :
           \E r \in {IF op = "del_block" THEN del_block(blocks, addr)
                                         ELSE delitem(blocks, addr)} :
               /\ blocks' = r.list
               /\ pre' = blocks
               /\ ret' = [NoCall EXCEPT !.op = op, !.addr = addr, !.exc = r.exc,
                             !.line = r.line]
    /\ UNCHANGED <<kb, an>>

Next == AddBlock \/ GetBlock \/ IterBlocks \/ DelBlock

Spec == Init /\ [][Next]_vars

\* ---- maps of several records ----------------------------------------------
\* the calls that build a map of up to MaxDeep records: a positive size, a
\* known overlap mode and, in mode 'handle', the handler of test_handle
DeepPolicies ==
    {<<"trim", "None">>, <<"raise", "None">>, <<"handle", "_ovarlap_handler">>}

AddBlockDeep ==
    /\ Len(blocks) < MaxDeep
    /\ \E addr \in Addrs, size \in 1..MaxSize, irsb \in Values,
          policy \in DeepPolicies :
           AddBlockCall(addr, size, irsb, policy)
    /\ UNCHANGED <<kb, an>>

NextDeep == AddBlockDeep

SpecDeep == Init /\ [][NextDeep]_vars

\* ---- the state machine of the knowledge base --------------------------------
\* a call of get_plugin(name) or of the attribute access kb.<name>
GetPlugin ==
    /\ \E name \in Names, op \in {"get_plugin", "__getattr__"} :
           \E r \in {get_plugin(kb, name)} :
               kb' = [kb EXCEPT !.plugins = r.plugins, !.objects = r.objects,
                         !.instantiated = r.instantiated,
                         !.first = IF /\ name = "basic_blocks" /\ r.exc = ""
                                      /\ kb.first = 0
                                   THEN r.plugin ELSE @,
                         !.op = op, !.name = name, !.exc = r.exc,
                         !.plugin = r.plugin, !.has = FALSE]
    /\ UNCHANGED <<blocks, pre, ret, an>>

\* a caller makes a BasicBlocksPlugin() or takes one made before, and
\* registers it under a name
RegisterPlugin ==
    /\ \E name \in Names, plugin \in 1..MaxObjects :
           /\ plugin <= Len(kb.objects) + 1
           /\ \E made \in {IF plugin <= Len(kb.objects)
                            THEN [exc |-> "", objects |-> kb.objects, plugin |-> plugin]
                            ELSE BasicBlocksPlugin_init(kb.objects, {})} :
                  kb' = [kb EXCEPT !.plugins = register_plugin(@, name, made.plugin),
                            !.objects = made.objects,
                            !.op = "register_plugin", !.name = name, !.exc = "",
                            !.plugin = made.plugin, !.has = FALSE]
    /\ UNCHANGED <<blocks, pre, ret, an>>

\* a call of release_plugin(name)
ReleasePlugin ==
    /\ \E name \in Names :
           kb' = [kb EXCEPT !.plugins = release_plugin(@, name),
                     !.op = "release_plugin", !.name = name, !.exc = "",
                     !.plugin = 0, !.has = FALSE]
    /\ UNCHANGED <<blocks, pre, ret, an>>

\* a call of has_plugin(name) or of `name in kb`
HasPlugin ==
    /\ \E name \in Names, op \in {"has_plugin", "__contains__"} :
           kb' = [kb EXCEPT !.op = op, !.name = name, !.exc = "", !.plugin = 0,
                     !.has = has_plugin(kb.plugins, name)]
    /\ UNCHANGED <<blocks, pre, ret, an>>

\* a caller that holds a BasicBlocksPlugin object calls add_block on it for
\* a block of one address, with the default overlap mode
PluginAddBlock ==
    /\ \E plugin \in 1..Len(kb.objects), addr \in Addrs, size \in {1},
          irsb \in Values :
           /\ Len(kb.objects[plugin]) < MaxBlocks
           /\ \E r \in {add_block(kb.objects[plugin], addr, size, irsb, "trim", "None")} :
                  kb' = [kb EXCEPT !.objects[plugin] = r.list,
                            !.op = "add_block", !.name = "", !.exc = r.exc,
                            !.plugin = plugin, !.has = FALSE]
    /\ UNCHANGED <<blocks, pre, ret, an>>

NextKB ==
    GetPlugin \/ RegisterPlugin \/ ReleasePlugin \/ HasPlugin \/ PluginAddBlock

SpecKB == Init /\ [][NextKB]_vars

\* ---- the state machine of an analysis ---------------------------------------
\* the factory is called and builds a new analysis object
FactoryCall ==
    /\ \E fail_fast \in BOOLEAN : an' = AnalysisFactory_call(fail_fast)
    /\ UNCHANGED <<blocks, pre, ret, kb>>

\* the analysis runs a block `with self._resilience(name, exception):`
Resilience ==
    /\ Len(an.errors) < MaxErrors
    /\ \E name \in ResilienceNames, exception \in GuardedTypes, raised \in BodyRaises :
           \E r \in {resilience(an, name, exception, raised)} :
               an' = Analysis(an.fail_fast, r.errors, r.named_errors, "_resilience",
                              name, exception, raised, r.exc,
                              an.errors, an.named_errors)
    /\ UNCHANGED <<blocks, pre, ret, kb>>

NextAnalysis == FactoryCall \/ Resilience

SpecAnalysis == Init /\ [][NextAnalysis]_vars

\* ---- what the properties speak of -----------------------------------------
\* two ranges have an address in common
Intersects(a, b) == Range(a) \cap Range(b) # {}

\* every two distinct records of the list have disjoint ranges
Disjoint(list) ==
    \A i, j \in 1..Len(list) : i # j => ~Intersects(list[i], list[j])

\* every record of the list has start < end
NonEmpty(list) == \A i \in 1..Len(list) : list[i].start < list[i].end

\* the contents of a map as get_block and iter_blocks show them
Contents(list) ==
    [i \in 1..Len(list) |-> <<list[i].start, list[i].end, list[i].value>>]

\* the range [addr, addr + size) of the last add_block call
NewRange == [start |-> ret.addr, end |-> ret.addr + ret.size]

AddReturned == ret.op = "add_block" /\ ret.exc = ""
AddRaised   == ret.op = "add_block" /\ ret.exc # ""

\* the records of the list that intersect the range r
Hit(list, r) == {i \in 1..Len(list) : Intersects(list[i], r)}

\* the list holds a record with this range and payload
Holds(list, start, end, value) ==
    \E i \in 1..Len(list) :
        list[i].start = start /\ list[i].end = end /\ list[i].value = value

\* the addresses a query may ask for
QueryAddrs == (-1) .. (MaxAddr + MaxSize + 1)

\* ---- C1 -------------------------------------------------------------------
\* C1 (disjointness invariant): an add_block call with a positive size that
\* returns on a map whose records are non-empty and pairwise disjoint leaves
\* a map whose records are non-empty and pairwise disjoint.
C1_Disjointness ==
    (AddReturned /\ ret.size > 0 /\ Disjoint(pre) /\ NonEmpty(pre))
        => (Disjoint(blocks) /\ NonEmpty(blocks))

C3_HandleDelegation ==
    \A i \in 1..Len(pre) :
        (/\ ret.op = "add_block" /\ ret.mode = "handle" /\ ret.size > 0
         /\ ret.handler = "_ovarlap_handler"
         /\ Disjoint(pre) /\ NonEmpty(pre)
         /\ Hit(pre, NewRange) = {i}
         /\ pre[i].start < ret.addr /\ ret.addr < pre[i].end)
        => (/\ ret.exc = ""
            /\ Holds(blocks, pre[i].start, ret.addr, pre[i].value)
            /\ Holds(blocks, ret.addr, ret.addr + ret.size, ret.irsb)
            /\ Disjoint(blocks))

\* ---- C4 -------------------------------------------------------------------
\* C4 (raise determinism): a raise-mode add_block whose range intersects a
\* stored record raises OverlappedBlocks carrying the attempted record and a
\* stored record that intersects it, and leaves the map as it was.
C4_RaiseDeterminism ==
    (/\ ret.op = "add_block" /\ ret.mode = "raise" /\ ret.size > 0
     /\ Hit(pre, NewRange) # {})
    => (/\ ret.exc = "OverlappedBlocks"
        /\ ret.this_block = BlockItem(ret.addr, ret.addr + ret.size, ret.irsb)
        /\ \E i \in Hit(pre, NewRange) : ret.other_block = pre[i]
        /\ blocks = pre)

C4_Witness ==
    /\ ret.op = "add_block" /\ ret.mode = "raise" /\ ret.size > 0
    /\ ret.exc = "OverlappedBlocks"
    /\ Len(pre) = 1 /\ pre[1].start < ret.addr /\ ret.addr < pre[1].end
    /\ pre[1].end < ret.addr + ret.size
    /\ ret.other_block = pre[1]

\* ---- C5 -------------------------------------------------------------------
\* C5 (handle-mode conflict detection): a handle-mode add_block whose handler
\* has run and left a stored record that still intersects the new range
\* raises OverlappedBlocks.
C5_HandleDetects ==
    (/\ ret.op = "add_block" /\ ret.mode = "handle" /\ ret.size > 0
     /\ ret.handler_calls = 1
     /\ Disjoint(pre) /\ NonEmpty(pre)
     /\ \E i \in Hit(blocks, NewRange) :
            ~(/\ blocks[i].start = ret.addr
              /\ blocks[i].end = ret.addr + ret.size
              /\ blocks[i].value = ret.irsb))
    => ret.exc = "OverlappedBlocks"

\* ---- C6 -------------------------------------------------------------------
\* C6 (no-op on rejection): an add_block call that raises for an empty block
\* (line 78), for an overlap in mode 'raise' (line 97), for an unknown mode
\* (line 100) or for a missing handler (line 90) leaves the contents of the
\* map as they were.
C6_NoOpOnRejection ==
    (AddRaised /\ ret.line \in {78, 97, 100, 90})
        => Contents(blocks) = Contents(pre)

C6_Witness ==
    /\ AddRaised /\ ret.line = 78 /\ Len(pre) > 0
    /\ Contents(blocks) = Contents(pre)

\* ---- C7 -------------------------------------------------------------------
\* C7 (point query): for every stored record r and every address a in
\* [r.start, r.end), get_block(a) is r and contains(a) is true; for every
\* address no record covers, get_block(a) is None and contains(a) is false.
C7_PointQuery ==
    \A a \in QueryAddrs :
        /\ \A i \in 1..Len(blocks) :
              (blocks[i].start <= a /\ a < blocks[i].end)
                  => (get_block(blocks, a) = blocks[i] /\ contains(blocks, a))
        /\ (\A i \in 1..Len(blocks) : ~(blocks[i].start <= a /\ a < blocks[i].end))
              => (get_block(blocks, a) = NoItem /\ ~contains(blocks, a))

\* a record has just been shrunk by the handler and an address of the part it
\* lost resolves to no record, while its first address still resolves to it
C7_Witness ==
    /\ AddReturned /\ ret.handler_calls = 1 /\ Len(pre) = 1 /\ Len(blocks) = 1
    /\ blocks[1].start < blocks[1].end /\ blocks[1].end < pre[1].end
    /\ get_block(blocks, pre[1].end - 1) = NoItem
    /\ get_block(blocks, blocks[1].start) = blocks[1]

\* ---- C8 -------------------------------------------------------------------
\* C8 (range query): iter_blocks(s, e) yields exactly the stored records
\* whose range has an address in [s, e), each once, in strictly ascending
\* order of start; a bound that is None leaves that side open, and a record
\* that only touches a bound is not yielded.
InBounds(item, start, stop) ==
    \E a \in Range(item) : (start = None \/ start <= a) /\ (stop = None \/ a < stop)

C8_RangeQuery ==
    \A s \in QueryAddrs \cup {None}, e \in QueryAddrs \cup {None} :
        LET out == iter_blocks(blocks, s, e)
        IN  /\ \A i \in 1..Len(blocks) :
                  Cardinality({k \in 1..Len(out) : out[k] = blocks[i]})
                      = IF InBounds(blocks[i], s, e) THEN 1 ELSE 0
            /\ \A k \in 1..Len(out) : \E i \in 1..Len(blocks) : out[k] = blocks[i]
            /\ \A k \in 1..(Len(out) - 1) : out[k].start < out[k + 1].start
            /\ \A k \in 1..Len(out) :
                  /\ (s # None => out[k].end # s)
                  /\ (e # None => out[k].start # e)

\* iter_blocks was called with both bounds on a map of two records and
\* yielded one of them, the other one touching a bound
C8_Witness ==
    /\ ret.op = "iter_blocks" /\ ret.start # None /\ ret.stop # None
    /\ Len(blocks) = 2 /\ Len(ret.items) = 1
    /\ \E i \in 1..2 : blocks[i].end = ret.start \/ blocks[i].start = ret.stop

\* ---- C9 -------------------------------------------------------------------
\* C9 (zero-size rejection): add_block with size 0 raises the ValueError of
\* line 78 in every mode, for every address and map, before any insertion is
\* attempted, and leaves the map as it was.
C9_ZeroSize ==
    (ret.op = "add_block" /\ ret.size = 0)
        => (/\ ret.exc = "ValueError" /\ ret.line = 78
            /\ ret.attempts = 0 /\ ret.handler_calls = 0
            /\ blocks = pre)

\* the address of the rejected empty block lies inside a stored record
C9_Witness ==
    /\ ret.op = "add_block" /\ ret.size = 0 /\ ret.mode = "handle"
    /\ ret.exc = "ValueError"
    /\ \E i \in 1..Len(pre) : pre[i].start < ret.addr /\ ret.addr < pre[i].end

\* ---- C10 ------------------------------------------------------------------
\* C10 (negative-size rejection): add_block with size < 0 raises the
\* ValueError of line 78 before any insertion is attempted, so that no range
\* with end <= start is offered to the block map, and leaves the map as it
\* was.
C10_NegativeSize ==
    (ret.op = "add_block" /\ ret.size < 0)
        => (/\ ret.exc = "ValueError" /\ ret.line = 78
            /\ ret.attempts = 0
            /\ blocks = pre)

\* ---- C11 ------------------------------------------------------------------
\* C11 (handle without handler): add_block in mode 'handle' with no handler
\* (overlap_handler None) and a positive size raises and leaves the map as
\* it was, whether the new range intersects a stored record or not.
C11_HandleNoHandler ==
    (/\ ret.op = "add_block" /\ ret.mode = "handle" /\ ret.handler = "None"
     /\ ret.size > 0)
    => (ret.exc # "" /\ blocks = pre)

\* ---- C12 ------------------------------------------------------------------
\* C12 (registry single instance): every access to the name 'basic_blocks',
\* by get_plugin or by attribute, returns a block map object, the same one
\* as the first access returned, and get_plugin instantiates the default
\* class at most once on one KnowledgeBase.
C12_SingleInstance ==
    /\ (kb.op \in {"get_plugin", "__getattr__"} /\ kb.name = "basic_blocks")
           => (kb.exc = "" /\ kb.plugin # 0 /\ kb.plugin = kb.first)
    /\ kb.instantiated <= 1

\* ---- C13 ------------------------------------------------------------------
\* C13 (deletion is unsupported): del_block(addr) and `del basic_blocks[addr]`
\* raise NotImplementedError for every address and map and leave the map as
\* it was; and no operation takes a record out of the map: after every
\* operation the map holds at least as many records as before, among them,
\* for every record it held, one with that record's start and payload.
C13_NoDeletion ==
    /\ (ret.op \in {"del_block", "__delitem__"})
           => (ret.exc = "NotImplementedError" /\ blocks = pre)
    /\ Len(blocks) >= Len(pre)
    /\ \A i \in 1..Len(pre) :
           \E j \in 1..Len(blocks) :
               blocks[j].start = pre[i].start /\ blocks[j].value = pre[i].value

\* del_block was called for an address that a stored record occupies
C13_Witness ==
    /\ ret.op = "del_block" /\ ret.exc = "NotImplementedError"
    /\ \E i \in 1..Len(blocks) : ret.addr \in Range(blocks[i])

C18_UnknownMode ==
    (/\ ret.op = "add_block" /\ ret.mode \notin {"trim", "handle", "raise"}
     /\ ret.size > 0)
    => (ret.exc # "" /\ blocks = pre)

Boundaries(list) == {<<list[i].start, list[i].end>> : i \in 1..Len(list)}

\* the map after add_block for the range a and then for the range b, both
\* in the same overlap mode, whether the calls return or raise
InOrder(list, a, b, irsb, overlap_mode, handler) ==
    add_block(add_block(list, a.start, a.end - a.start, irsb, overlap_mode, handler).list,
              b.start, b.end - b.start, irsb, overlap_mode, handler).list

\* the non-empty ranges that add_block can be called for
RangesOf == {[start |-> a, end |-> a + n] : a \in Addrs, n \in 1..MaxSize}

GuardedRaised ==
    /\ an.op = "_resilience" /\ an.raised # ""
    /\ except_matches(an.raised, an.exception)

\* C21 (best-effort error capture): when the body of a _resilience(name,
\* exception) block raises an exception of the guarded type, then with
\* _fail_fast false no exception leaves the block and one entry is added, to
\* errors when name is None and to named_errors[name] otherwise, nothing
\* else being changed; with _fail_fast true the exception leaves the block
\* and errors and named_errors are as before.
C21_BestEffort ==
    GuardedRaised
    => IF an.fail_fast
       THEN /\ an.exc = an.raised
            /\ an.errors = an.errors_pre /\ an.named_errors = an.named_errors_pre
       ELSE /\ an.exc = ""
            /\ (an.name = "None")
                   => (/\ an.errors = Append(an.errors_pre,
                                             AnalysisLogEntry("exception occurred", an.raised))
                       /\ an.named_errors = an.named_errors_pre)
            /\ (an.name # "None")
                   => (/\ an.errors = an.errors_pre
                       /\ an.name \in DOMAIN an.named_errors
                       /\ Len(an.named_errors[an.name])
                              = 1 + (IF an.name \in DOMAIN an.named_errors_pre
                                     THEN Len(an.named_errors_pre[an.name]) ELSE 0))

====
